---- MODULE Spec2Model ----
(***************************************************************************)
(* A model of openag/cli/db/__init__.py: the `openag db` commands init,    *)
(* load_fixture and update_module_types, run against a CouchDB server, the *)
(* config store and git.                                                   *)
(*                                                                         *)
(* A JSON object (a Python dict) is a function from its keys to its        *)
(* values.  Identifiers and configuration values are sequences of          *)
(* characters, so that startswith and the quoting of line 62 are computed. *)
(* Every command is a separate set of actions with its own specification:  *)
(* LoadSpec (load_fixture), SyncSpec (update_module_types), InitSpec       *)
(* (init).                                                                 *)
(***************************************************************************)
EXTENDS Integers, Sequences, FiniteSets, TLC

VARIABLES
    pc,           \* position of the running command
    config_url,   \* config["local_server"]["url"]
    update_seq,   \* the server's update sequence: the source of revision tokens
    \* ---- load_fixture
    fixture,      \* json.load(fixture_file), as the sequence fixture.items()
    store,        \* server[db_name] for every database: id -> stored document
    di,           \* index of the database being loaded
    ii,           \* index of the item being loaded
    pass,         \* number of load_fixture runs started
    pass_store,   \* the store when the running pass began
    writes,       \* the db[item_id] = item requests issued in the running pass
    last_iter,    \* what the last iteration of the item loop saw and did
    \* ---- update_module_types
    modules,      \* server[FIRMWARE_MODULE_TYPE]: id -> stored document
    todo,         \* the ids `for _id in db` has still to yield
    batch,        \* number of update_module_types runs started
    temp_folder,  \* the directory of mkdtemp(): "none", "exists" or "removed"
    scratch,      \* the directories in temp_folder: dir_name -> cloned tree
    reads,        \* the ids read with db[_id] in the running batch
    sync_writes,  \* the db[_id] = new_obj requests issued in the running batch
    last_rec,     \* what the last iteration of the record loop saw and did
    \* ---- init
    db_url,       \* the --db_url option
    cloud_url,    \* config["cloud_server"]["url"]
    farm_name,    \* config["cloud_server"]["farm_name"]
    config_items, \* the (section, param, value) triples of generate_config
    srv_config,   \* the server's _config: index of the triple -> current text
    ci,           \* index of the triple being applied
    trace,        \* the requests and pauses of the running init, in order
    before        \* the config store's url and the server's _config before init

loadVars == <<fixture, store, di, ii, pass, pass_store, writes, last_iter>>
syncVars == <<modules, todo, batch, temp_folder, scratch, reads, sync_writes, last_rec>>
initVars == <<db_url, cloud_url, farm_name, config_items, srv_config, ci, trace, before>>
vars == <<pc, config_url, update_seq, loadVars, syncVars, initVars>>

(***************************************************************************)
(* Bounds of the model.                                                    *)
(***************************************************************************)
MaxItems == 2     \* records in a fixture file, over all its databases
MaxPasses == 2    \* runs of load_fixture on the same file

(***************************************************************************)
(* Python dicts.                                                           *)
(***************************************************************************)
EmptyDict == [k \in {} |-> ""]

\* d[k] = v
DictSet(d, k, v) == [x \in DOMAIN d \cup {k} |-> IF x = k THEN v ELSE d[x]]

\* d.update(info)
DictUpdate(d, info) ==
    [x \in DOMAIN d \cup DOMAIN info |-> IF x \in DOMAIN info THEN info[x] ELSE d[x]]

(***************************************************************************)
(* The database server: one document per id, optimistic concurrency on the *)
(* revision token.                                                         *)
(***************************************************************************)
LOCAL_URL == "http://localhost:5984"

NewRev(seq) == "r" \o ToString(seq + 1)

\* does the server accept db[key] = doc
PutOk(docs, key, doc) ==
    /\ "_id" \in DOMAIN doc => doc["_id"] = key
    /\ IF key \in DOMAIN docs
         THEN "_rev" \in DOMAIN doc /\ doc["_rev"] = docs[key]["_rev"]
         ELSE "_rev" \notin DOMAIN doc

\* the documents after an accepted db[key] = doc
PutDoc(docs, key, doc, seq) ==
    [x \in DOMAIN docs \cup {key} |->
        IF x = key THEN DictSet(DictSet(doc, "_id", key), "_rev", NewRev(seq))
                   ELSE docs[x]]

(***************************************************************************)
(* load_fixture                                                            *)
(***************************************************************************)
DbNames == {"d1", "d2"}
ItemIds == {<<"a">>, <<"b">>}
ItemNames == {"x", "y"}

FixtureItem(id, name) == [k \in {"_id", "name"} |-> IF k = "_id" THEN id ELSE name]

\* the records a fixture file lists: plain records, and one that carries a
\* revision token of its own
FixtureItems ==
    {FixtureItem(id, name) : id \in ItemIds, name \in ItemNames}
        \cup {DictSet(FixtureItem(<<"a">>, "x"), "_rev", "stale")}

SeqsUpTo(S, n) == UNION {[1..m -> S] : m \in 0..n}

\* a fixture file: database names (each once, a JSON object) to arrays of records
FixtureSets ==
    {f \in SeqsUpTo([db_name : DbNames, items : SeqsUpTo(FixtureItems, MaxItems)], 2) :
        /\ \A i, j \in 1..Len(f) : f[i].db_name = f[j].db_name => i = j
        /\ (IF Len(f) = 0 THEN 0
            ELSE IF Len(f) = 1 THEN Len(f[1].items)
            ELSE Len(f[1].items) + Len(f[2].items)) <= MaxItems}

StoredDoc(id, name) ==
    [k \in {"_id", "_rev", "name"} |->
        IF k = "_id" THEN id ELSE IF k = "_rev" THEN "r0" ELSE name]

\* the stores load_fixture may find: every id absent or stored with name "x"
InitialDocs ==
    {[id \in ids |-> StoredDoc(id, "x")] : ids \in SUBSET ItemIds}

NoIter == [valid |-> FALSE, item |-> EmptyDict, present |-> FALSE,
           old_item |-> EmptyDict, wrote |-> <<>>]

\* line 154 left out: the stored revision token is not copied into the item
CarryRev_Forgotten(item, old_item) == item

\* line 154: item["_rev"] = old_item["_rev"]
CarryRev(item, old_item) == DictSet(item, "_rev", old_item["_rev"])

\* lines 155-156 left out: an item equal to the stored one is written again
ItemWrites_NoSkip(item, docs) ==
    LET item_id == item["_id"] IN
    IF item_id \in DOMAIN docs
      THEN <<CarryRev(item, docs[item_id])>>
      ELSE <<item>>

\* lines 151-157: the documents one iteration writes with db[item_id] = item
ItemWrites(item, docs) ==
    LET item_id == item["_id"] IN
    IF item_id \in DOMAIN docs
      THEN LET old_item == docs[item_id]
               item2 == CarryRev(item, old_item)
           IN IF item2 = old_item THEN <<>> ELSE <<item2>>
      ELSE <<item>>

\* lines 141-144: utils.check_for_local_server(), the server and the file
LoadStart ==
    /\ pc \in {"idle", "done", "aborted"}
    /\ pass < MaxPasses
    /\ IF config_url = ""
         THEN /\ pc' = "no_server"
              /\ UNCHANGED <<di, ii, pass, pass_store, writes>>
         ELSE /\ pc' = "loading"
              /\ di' = 1
              /\ ii' = 1
              /\ pass' = pass + 1
              /\ pass_store' = store
              /\ writes' = <<>>
    /\ last_iter' = NoIter
    /\ UNCHANGED <<config_url, update_seq, fixture, store, syncVars, initVars>>

\* lines 150-157: one iteration of the item loop
LoadItem ==
    /\ pc = "loading"
    /\ di <= Len(fixture)
    /\ ii <= Len(fixture[di].items)
    /\ LET db_name == fixture[di].db_name
           db == store[db_name]
           item == fixture[di].items[ii]
           item_id == item["_id"]
           ws == ItemWrites(item, db)
       IN /\ last_iter' = [valid |-> TRUE, item |-> item,
                           present |-> item_id \in DOMAIN db,
                           old_item |-> IF item_id \in DOMAIN db THEN db[item_id]
                                        ELSE EmptyDict,
                           wrote |-> ws]
          /\ writes' = writes \o [k \in 1..Len(ws) |->
                                    [db_name |-> db_name, doc |-> ws[k]]]
          /\ IF ws = <<>>
               THEN UNCHANGED <<store, update_seq, pc>> /\ ii' = ii + 1
               ELSE IF PutOk(db, item_id, ws[1])
                 THEN /\ store' = [store EXCEPT
                                     ![db_name] = PutDoc(db, item_id, ws[1], update_seq)]
                      /\ update_seq' = update_seq + 1
                      /\ ii' = ii + 1
                      /\ UNCHANGED pc
                 ELSE \* couchdb raises ResourceConflict, which nothing catches
                      /\ pc' = "aborted"
                      /\ UNCHANGED <<store, update_seq, ii>>
    /\ UNCHANGED <<config_url, fixture, di, pass, pass_store, syncVars, initVars>>

\* lines 145-146: the next (db_name, _items) pair
LoadNextDb ==
    /\ pc = "loading"
    /\ di <= Len(fixture)
    /\ ii > Len(fixture[di].items)
    /\ di' = di + 1
    /\ ii' = 1
    /\ UNCHANGED <<pc, config_url, update_seq, fixture, store, pass, pass_store,
                   writes, last_iter, syncVars, initVars>>

\* line 145: fixture.items() is exhausted and the command returns
LoadEnd ==
    /\ pc = "loading"
    /\ di > Len(fixture)
    /\ pc' = "done"
    /\ UNCHANGED <<config_url, update_seq, loadVars, syncVars, initVars>>

(***************************************************************************)
(* update_module_types                                                     *)
(***************************************************************************)
MaxModules == 2   \* firmware module type records in the database
MaxBatches == 2   \* runs of update_module_types

DesignId == <<"_", "d">>
ModuleIds == {<<"m", ToString(i)>> : i \in 1..MaxModules}

\* line 190: _id.startswith("_")
StartsWithUnderscore(_id) == Len(_id) >= 1 /\ _id[1] = "_"

\* Database.__iter__: the ids of the database, in the order of _all_docs
DbKeys(docs) ==
    LET order == <<DesignId>> \o [i \in 1..MaxModules |-> <<"m", ToString(i)>>]
    IN SelectSeq(order, LAMBDA k : k \in DOMAIN docs)

GitRepo(url) == [type |-> "git", url |-> url]
GitRepoBranch(url, branch) == [type |-> "git", url |-> url, branch |-> branch]
HgRepo(url) == [type |-> "hg", url |-> url]

ModuleDoc(id, fields) ==
    DictUpdate([k \in {"_id", "_rev"} |-> IF k = "_id" THEN id ELSE "r0"], fields)

\* the records a firmware_module_type database may hold under one id
ModuleDocs(id) ==
    {ModuleDoc(id, f) : f \in
        {[version |-> "1.0"],
         [repository |-> HgRepo("u1")],
         [repository |-> GitRepo("u1"), version |-> "1.0"],
         [repository |-> GitRepo("u1"), version |-> "2.0"],
         [repository |-> GitRepoBranch("u2", "dev")]}}

InitialModules ==
    {m \in UNION {[ids -> UNION {ModuleDocs(id) : id \in ModuleIds}] :
                     ids \in SUBSET ModuleIds} :
        \A id \in DOMAIN m : m[id]["_id"] = id}

\* the module.json files a repository may hold
Manifests ==
    {[version |-> "2.0"],
     [version |-> "2.0", _id |-> <<"m", "9">>],
     [version |-> "2.0", _rev |-> "r9"]}

\* what `git clone -b branch url dir_name` may do: fail, or bring a tree with
\* or without a readable module.json
GitOutcomes ==
    {[clone_ok |-> FALSE, has_manifest |-> FALSE, info |-> EmptyDict],
     [clone_ok |-> TRUE, has_manifest |-> FALSE, info |-> EmptyDict]}
        \cup {[clone_ok |-> TRUE, has_manifest |-> TRUE, info |-> m] : m \in Manifests}

\* openag.utils.make_dir_name_from_url
make_dir_name_from_url(url) == "dir_" \o url

\* openag.models.FirmwareModuleType(obj)
FirmwareModuleType(obj) == obj

\* lines 160-164 with the test of the type left out: any repository is cloned
IsGit_AnyRepository(obj) == "repository" \in DOMAIN obj

\* lines 160-164: the record names a git repository
IsGit(obj) ==
    /\ "repository" \in DOMAIN obj
    /\ obj["repository"]["type"] = "git"

\* lines 174-175: new_obj = dict(obj); new_obj.update(info)
Merge(obj, info) == DictUpdate(obj, info)

\* lines 159-176: update_record(obj, temp_folder), with `git` what the clone
\* does.  The result: whether an exception left the function, the returned
\* record, the directories of temp_folder afterwards, the clones started.
update_record(obj, temp, git) ==
    IF ~IsGit(obj)
      THEN [raised |-> FALSE, ret |-> obj, temp |-> temp, clones |-> <<>>,
            merged |-> FALSE]
      ELSE
        LET repo == obj["repository"]
            url == repo["url"]
            branch == IF "branch" \in DOMAIN repo THEN repo["branch"] ELSE "master"
            dir_name == make_dir_name_from_url(url)
            \* git refuses to clone into a directory that exists
            cloned == git.clone_ok /\ dir_name \notin DOMAIN temp
            temp2 == IF cloned
                       THEN [d \in DOMAIN temp \cup {dir_name} |->
                               IF d = dir_name
                                 THEN [has_manifest |-> git.has_manifest,
                                       info |-> git.info]
                                 ELSE temp[d]]
                       ELSE temp
            clones == <<[url |-> url, branch |-> branch, ok |-> cloned]>>
        IN \* the exit status of subprocess.call is dropped
           IF dir_name \notin DOMAIN temp2 \/ ~temp2[dir_name].has_manifest
             THEN \* open or json.load raises
                  [raised |-> TRUE, ret |-> obj, temp |-> temp2, clones |-> clones,
                   merged |-> FALSE]
             ELSE [raised |-> FALSE, ret |-> Merge(obj, temp2[dir_name].info),
                   temp |-> temp2, clones |-> clones, merged |-> TRUE]

\* line 195 with the comparison left out: every record is written back
NeedsWrite_Always(new_obj, obj) == TRUE

\* line 195: new_obj != obj
NeedsWrite(new_obj, obj) == new_obj # obj

NoRec == [valid |-> FALSE, _id |-> <<>>, obj |-> EmptyDict, git |-> FALSE,
          raised |-> FALSE, ret |-> EmptyDict, merged |-> FALSE, clones |-> <<>>,
          temp_before |-> EmptyDict, temp_after |-> EmptyDict, wrote |-> <<>>]

\* lines 185-189: the server, the database, mkdtemp() and the ids of the database
SyncStart ==
    /\ pc \in {"idle", "done", "failed"}
    /\ batch < MaxBatches
    /\ pc' = "syncing"
    /\ batch' = batch + 1
    /\ temp_folder' = "exists"
    /\ scratch' = EmptyDict
    /\ todo' = DbKeys(modules)
    /\ reads' = {}
    /\ sync_writes' = <<>>
    /\ last_rec' = NoRec
    /\ UNCHANGED <<config_url, update_seq, modules, loadVars, initVars>>

\* lines 189-191: an id that starts with "_" is passed over
SyncSkip ==
    /\ pc = "syncing"
    /\ todo # <<>>
    /\ StartsWithUnderscore(Head(todo))
    /\ todo' = Tail(todo)
    /\ last_rec' = NoRec
    /\ UNCHANGED <<pc, config_url, update_seq, modules, batch, temp_folder, scratch,
                   reads, sync_writes, loadVars, initVars>>

\* lines 189-196: one iteration of the record loop
SyncRecord ==
    /\ pc = "syncing"
    /\ todo # <<>>
    /\ ~StartsWithUnderscore(Head(todo))
    /\ \E git \in GitOutcomes :
        LET _id == Head(todo)
            obj == modules[_id]
            r == update_record(FirmwareModuleType(obj), scratch, git)
            new_obj == DictSet(r.ret, "_rev", obj["_rev"])
            ws == IF ~r.raised /\ NeedsWrite(new_obj, obj) THEN <<new_obj>> ELSE <<>>
        IN /\ reads' = reads \cup {_id}
           /\ scratch' = r.temp
           /\ last_rec' = [valid |-> TRUE, _id |-> _id, obj |-> obj,
                           git |-> IsGit(obj), raised |-> r.raised, ret |-> r.ret,
                           merged |-> r.merged, clones |-> r.clones,
                           temp_before |-> scratch, temp_after |-> r.temp,
                           wrote |-> ws]
           /\ sync_writes' = sync_writes \o
                                [k \in 1..Len(ws) |-> [_id |-> _id, doc |-> ws[k]]]
           /\ IF r.raised
                THEN \* the exception leaves update_module_types
                     /\ pc' = "failed"
                     /\ UNCHANGED <<todo, modules, update_seq>>
                ELSE IF ws = <<>>
                  THEN /\ todo' = Tail(todo)
                       /\ UNCHANGED <<pc, modules, update_seq>>
                  ELSE IF PutOk(modules, _id, ws[1])
                    THEN /\ modules' = PutDoc(modules, _id, ws[1], update_seq)
                         /\ update_seq' = update_seq + 1
                         /\ todo' = Tail(todo)
                         /\ UNCHANGED pc
                    ELSE \* the server rejects the write and couchdb raises
                         /\ pc' = "failed"
                         /\ UNCHANGED <<todo, modules, update_seq>>
    /\ UNCHANGED <<config_url, batch, temp_folder, loadVars, initVars>>

\* line 197: rmtree(temp_folder), after the loop
SyncEnd ==
    /\ pc = "syncing"
    /\ todo = <<>>
    /\ temp_folder' = "removed"
    /\ scratch' = EmptyDict
    /\ pc' = "done"
    /\ UNCHANGED <<config_url, update_seq, modules, todo, batch, reads, sync_writes,
                   last_rec, loadVars, initVars>>

SyncAtRest ==
    /\ modules = EmptyDict
    /\ todo = <<>>
    /\ batch = 0
    /\ temp_folder = "none"
    /\ scratch = EmptyDict
    /\ reads = {}
    /\ sync_writes = <<>>
    /\ last_rec = NoRec

(***************************************************************************)
(* init                                                                    *)
(***************************************************************************)
MaxParams == 2    \* configuration parameters generate_config yields

OTHER_URL == "http://couch:5984"
CLOUD_URL == "http://cloud"
FARM_NAME == "farm"

QUOTE == "\""
BACKSLASH == "\\"

\* the values generate_config may give a parameter
ConfigValues == {<<"a">>, <<"a", QUOTE>>}

\* value.replace('"', '\\"')
RECURSIVE EscapeQuotes(_)
EscapeQuotes(value) ==
    IF value = <<>> THEN <<>>
    ELSE (IF Head(value) = QUOTE THEN <<BACKSLASH, QUOTE>> ELSE <<Head(value)>>)
             \o EscapeQuotes(Tail(value))

\* line 62: '"{}"'.format(value.replace('"', '\\"'))
desired_val(value) == <<QUOTE>> \o EscapeQuotes(value) \o <<QUOTE>>

\* lines 60-61: ResourceNotFound leaves current_val None
None == <<"None">>

\* the texts GET _config/section/param may return for a parameter
CurrentTexts == {None} \cup {desired_val(v) : v \in ConfigValues}

\* what the PUT of line 64 may end with: 200, another status that
\* session.request returns, or a status for which it raises
PutStatuses == {200, 202, 500}

Event(op, i, status) == [op |-> op, i |-> i, status |-> status]

\* line 35 left out: init goes on whatever the config store holds
AlreadyInitialized_Never(old_db_url, url) == FALSE

\* line 35: old_db_url and old_db_url != db_url
AlreadyInitialized(old_db_url, url) == old_db_url # "" /\ old_db_url # url

\* lines 34-48: the test of the local server, generate_config and the server
InitStart ==
    /\ pc = "idle"
    /\ LET old_db_url == config_url IN
       IF AlreadyInitialized(old_db_url, db_url)
         THEN pc' = "conflict"       \* raise click.ClickException
         ELSE pc' = "config"
    /\ UNCHANGED <<config_url, update_seq, loadVars, syncVars, initVars>>

\* lines 53-76: one iteration of the loop over the configuration parameters
InitConfigParam ==
    /\ pc = "config"
    /\ ci <= Len(config_items)
    /\ LET current_val == srv_config[ci]
           desired == desired_val(config_items[ci].value)
       IN IF current_val # desired
            THEN \E status \in PutStatuses :
                   IF status # 200
                     THEN \* session.request raises, or line 73 reads `res`,
                          \* which is bound nowhere: an exception leaves init
                          /\ trace' = trace \o <<Event("GET", ci, 0),
                                                 Event("PUT", ci, status)>>
                          /\ pc' = "crashed"
                          /\ UNCHANGED <<srv_config, ci>>
                     ELSE /\ trace' = trace \o <<Event("GET", ci, 0),
                                                 Event("PUT", ci, status),
                                                 Event("SLEEP", ci, 0)>>
                          /\ srv_config' = [srv_config EXCEPT ![ci] = desired]
                          /\ ci' = ci + 1
                          /\ UNCHANGED pc
            ELSE /\ trace' = Append(trace, Event("GET", ci, 0))
                 /\ ci' = ci + 1
                 /\ UNCHANGED <<pc, srv_config>>
    /\ UNCHANGED <<config_url, update_seq, db_url, cloud_url, farm_name, config_items,
                   before, loadVars, syncVars>>

\* lines 78-88: the databases and the design documents
InitProvision ==
    /\ pc = "config"
    /\ ci > Len(config_items)
    /\ trace' = trace \o <<Event("CREATE_DBS", 0, 0), Event("PUSH_DESIGN", 0, 0)>>
    /\ pc' = "replicate"
    /\ UNCHANGED <<config_url, update_seq, db_url, cloud_url, farm_name, config_items,
                   srv_config, ci, before, loadVars, syncVars>>

\* lines 90-97: replication with the cloud server, and the config store
InitFinish ==
    /\ pc = "replicate"
    /\ trace' = trace
                  \o (IF cloud_url # ""
                        THEN <<Event("REPLICATE_GLOBAL", 0, 0)>> ELSE <<>>)
                  \o (IF cloud_url # "" /\ farm_name # ""
                        THEN <<Event("REPLICATE_PER_FARM", 0, 0)>> ELSE <<>>)
    /\ config_url' = db_url
    /\ pc' = "done"
    /\ UNCHANGED <<update_seq, db_url, cloud_url, farm_name, config_items, srv_config,
                   ci, before, loadVars, syncVars>>

InitAtRest ==
    /\ db_url = LOCAL_URL
    /\ cloud_url = ""
    /\ farm_name = ""
    /\ config_items = <<>>
    /\ srv_config = <<>>
    /\ ci = 1
    /\ trace = <<>>
    /\ before = [url |-> "", srv_config |-> <<>>]

(***************************************************************************)
(* The specifications: one command each, the state of the others at rest.  *)
(***************************************************************************)
LoadAtRest ==
    /\ fixture = <<>>
    /\ store = [d \in DbNames |-> EmptyDict]
    /\ di = 1 /\ ii = 1 /\ pass = 0
    /\ pass_store = store
    /\ writes = <<>>
    /\ last_iter = NoIter

LoadInit ==
    /\ pc = "idle"
    /\ config_url \in {"", LOCAL_URL}
    /\ update_seq = 0
    /\ fixture \in FixtureSets
    /\ store \in [DbNames -> InitialDocs]
    /\ di = 1
    /\ ii = 1
    /\ pass = 0
    /\ pass_store = store
    /\ writes = <<>>
    /\ last_iter = NoIter
    /\ SyncAtRest
    /\ InitAtRest

LoadNext == LoadStart \/ LoadItem \/ LoadNextDb \/ LoadEnd

LoadSpec == LoadInit /\ [][LoadNext]_vars

SyncInit ==
    /\ pc = "idle"
    /\ config_url = LOCAL_URL
    /\ update_seq = 0
    /\ \E m \in InitialModules, design \in BOOLEAN :
         modules = IF design
                     THEN [x \in DOMAIN m \cup {DesignId} |->
                             IF x = DesignId
                               THEN [k \in {"_id", "_rev"} |->
                                       IF k = "_id" THEN DesignId ELSE "r0"]
                               ELSE m[x]]
                     ELSE m
    /\ todo = <<>>
    /\ batch = 0
    /\ temp_folder = "none"
    /\ scratch = EmptyDict
    /\ reads = {}
    /\ sync_writes = <<>>
    /\ last_rec = NoRec
    /\ LoadAtRest
    /\ InitAtRest

SyncNext == SyncStart \/ SyncSkip \/ SyncRecord \/ SyncEnd

SyncSpec == SyncInit /\ [][SyncNext]_vars

InitInit ==
    /\ pc = "idle"
    /\ config_url \in {"", LOCAL_URL, OTHER_URL}
    /\ update_seq = 0
    /\ db_url \in {LOCAL_URL, OTHER_URL}
    /\ cloud_url \in {"", CLOUD_URL}
    /\ farm_name \in {"", FARM_NAME}
    /\ config_items \in [1..MaxParams -> [section : {"s"}, param : {"p"},
                                          value : ConfigValues]]
    /\ srv_config \in [1..MaxParams -> CurrentTexts]
    /\ ci = 1
    /\ trace = <<>>
    /\ before = [url |-> config_url, srv_config |-> srv_config]
    /\ LoadAtRest
    /\ SyncAtRest

InitNext == InitStart \/ InitConfigParam \/ InitProvision \/ InitFinish

InitSpec == InitInit /\ [][InitNext]_vars

(***************************************************************************)
(* Properties of load_fixture                                              *)
(***************************************************************************)
PassEnded == pc \in {"done", "aborted"}

\* the content of a record, its revision token left out
StripRev(d) == [x \in DOMAIN d \ {"_rev"} |-> d[x]]

\* no database of the fixture lists an id twice
DistinctIds ==
    \A d \in 1..Len(fixture) : \A i, j \in 1..Len(fixture[d].items) :
        fixture[d].items[i]["_id"] = fixture[d].items[j]["_id"] => i = j

\* no record of the fixture carries a revision token of its own
NoOwnRev ==
    \A d \in 1..Len(fixture) : \A i \in 1..Len(fixture[d].items) :
        "_rev" \notin DOMAIN fixture[d].items[i]

\* C1 (as claimed): for every fixture set and every store, the second run of
\* load_fixture on the same fixture issues no write and leaves the store as
\* the first run left it.
C1_SecondPassWritesNothing ==
    (pass >= 2 /\ PassEnded) => (writes = <<>> /\ store = pass_store)

\* C1 (amended): when no database of the fixture lists an id twice and no
\* record carries a revision token of its own, the second run of
\* load_fixture on the same fixture issues no write and leaves the store as
\* the first run left it.
C1_SecondPassWritesNothingDistinct ==
    (pass >= 2 /\ PassEnded /\ DistinctIds /\ NoOwnRev)
        => (writes = <<>> /\ store = pass_store)

\* a second pass has ended over a fixture whose first pass wrote something
C1_Witness ==
    /\ pass = 2 /\ pc = "done" /\ DistinctIds /\ NoOwnRev
    /\ update_seq > 0
    /\ \E d \in 1..Len(fixture) : Len(fixture[d].items) = 2

\* C5: one iteration of the item loop issues exactly one write, of the item
\* as it is, when the id is absent; exactly one write, carrying the stored
\* revision token, when the id is present and the content without the
\* revision token differs from the stored record; and no write when the
\* content without the revision token equals the stored record.
C5_WriteCount ==
    last_iter.valid =>
        IF ~last_iter.present
          THEN last_iter.wrote = <<last_iter.item>>
          ELSE IF StripRev(last_iter.item) = StripRev(last_iter.old_item)
            THEN last_iter.wrote = <<>>
            ELSE /\ Len(last_iter.wrote) = 1
                 /\ StripRev(last_iter.wrote[1]) = StripRev(last_iter.item)
                 /\ "_rev" \in DOMAIN last_iter.wrote[1]
                 /\ last_iter.wrote[1]["_rev"] = last_iter.old_item["_rev"]

\* an iteration found its id stored with the same content, after an earlier
\* iteration of the pass had rewritten a record
C5_Witness ==
    /\ last_iter.valid /\ last_iter.present
    /\ last_iter.wrote = <<>>
    /\ Len(writes) = 1
    /\ "_rev" \in DOMAIN writes[1].doc

(***************************************************************************)
(* Properties of update_module_types                                       *)
(***************************************************************************)
BatchEnded == pc \in {"done", "failed"}

\* the record has no repository field, or one whose type is not "git"
NonGit(obj) == "repository" \notin DOMAIN obj \/ obj["repository"]["type"] # "git"

\* the merged record of the last iteration, the stored revision token on it
MergedWithStoredRev == DictSet(last_rec.ret, "_rev", last_rec.obj["_rev"])

\* C2: after update_record on a record with a git repository, whatever the
\* manifest holds, the returned record has the identity and the revision
\* token of the record it was given.
C2_IdentityAndRevisionKept ==
    (last_rec.valid /\ ~NonGit(last_rec.obj) /\ ~last_rec.raised)
        => /\ last_rec.ret["_id"] = last_rec.obj["_id"]
           /\ last_rec.ret["_rev"] = last_rec.obj["_rev"]

\* C3: once a batch of update_module_types has ended, normally or by a
\* failure, the scratch directory it created exists no more.
C3_ScratchRemoved == BatchEnded => temp_folder # "exists"

\* C7: update_record on a record without a repository field, or with a
\* repository whose type is not "git", returns the record as it was given,
\* starts no clone and leaves the scratch directory as it was.
C7_NonGitPassthrough ==
    (last_rec.valid /\ NonGit(last_rec.obj))
        => /\ ~last_rec.raised
           /\ last_rec.ret = last_rec.obj
           /\ last_rec.clones = <<>>
           /\ last_rec.temp_after = last_rec.temp_before

\* a record with a repository that is not git was processed while the
\* scratch directory held a clone
C7_Witness ==
    /\ last_rec.valid
    /\ "repository" \in DOMAIN last_rec.obj
    /\ last_rec.obj["repository"]["type"] = "hg"
    /\ last_rec.temp_before # EmptyDict

\* C9: update_module_types reads and writes no id that starts with "_"; for
\* any other id it writes the merged record, the stored revision token on
\* it, exactly when that record differs from the stored one, and writes
\* nothing when they are equal.
C9_WritesOnlyChanges ==
    /\ \A id \in reads : id[1] # "_"
    /\ \A k \in 1..Len(sync_writes) : sync_writes[k]._id[1] # "_"
    /\ last_rec.valid =>
         /\ last_rec.raised => last_rec.wrote = <<>>
         /\ ~last_rec.raised =>
              IF MergedWithStoredRev # last_rec.obj
                THEN /\ last_rec.wrote = <<MergedWithStoredRev>>
                     /\ last_rec.wrote[1]["_rev"] = last_rec.obj["_rev"]
                ELSE last_rec.wrote = <<>>

\* in a database with a design document, a record merged with a manifest came
\* out equal to the stored one, after another record was written back
C9_Witness ==
    /\ DesignId \in DOMAIN modules
    /\ last_rec.valid /\ last_rec.merged
    /\ last_rec.wrote = <<>>
    /\ sync_writes # <<>>

\* C10: when the clone for a record fails, the record is not merged with a
\* manifest, is not written, stays as stored, and the batch goes on.
C10_CloneFailureSkipsRecord ==
    (last_rec.valid /\ \E k \in 1..Len(last_rec.clones) : ~last_rec.clones[k].ok)
        => /\ pc # "failed"
           /\ ~last_rec.merged
           /\ last_rec.wrote = <<>>
           /\ modules[last_rec._id] = last_rec.obj

(***************************************************************************)
(* Properties of init                                                      *)
(***************************************************************************)
InitEnded == pc \in {"done", "crashed"}

Occurrences(op, i) == {k \in 1..Len(trace) : trace[k].op = op /\ trace[k].i = i}

\* the loop has finished with the triple i
Handled(i) == ci > i \/ (pc = "crashed" /\ ci = i)

\* C4: an init in which a configuration write returned a non-success status
\* still reads every remaining parameter and goes on to the databases and
\* the design documents.
C4_FailedWriteDoesNotAbort ==
    (InitEnded /\ \E k \in 1..Len(trace) :
                    trace[k].op = "PUT" /\ trace[k].status # 200)
        => /\ \A i \in 1..Len(config_items) : Occurrences("GET", i) # {}
           /\ Occurrences("PUSH_DESIGN", 0) # {}

\* C6: for every parameter the loop has finished with: no write and no
\* pause when the server's value was the desired text; otherwise exactly
\* one write, and the pause right after it.
C6_OneWriteThenPause ==
    \A i \in 1..Len(config_items) :
        Handled(i) =>
            IF before.srv_config[i] = desired_val(config_items[i].value)
              THEN Occurrences("PUT", i) = {} /\ Occurrences("SLEEP", i) = {}
              ELSE /\ Cardinality(Occurrences("PUT", i)) = 1
                   /\ \A k \in Occurrences("PUT", i) :
                        k < Len(trace) /\ trace[k + 1] = Event("SLEEP", i, 0)

\* C8: an init invoked with a db_url other than the non-empty url of the
\* config store ends with an error and has made no request: nothing written
\* to the server's configuration, no database created, no design document
\* pushed, no replication requested, the config store's url as it was.
C8_ConflictChangesNothing ==
    (pc # "idle" /\ before.url # "" /\ before.url # db_url)
        => /\ pc = "conflict"
           /\ trace = <<>>
           /\ srv_config = before.srv_config
           /\ config_url = before.url

\* init has ended with the error, on a server whose configuration differs
\* from the desired one and with a cloud server selected
C8_Witness ==
    /\ pc = "conflict"
    /\ before.url = OTHER_URL /\ db_url = LOCAL_URL
    /\ cloud_url # ""
    /\ \E i \in 1..Len(config_items) :
         srv_config[i] # desired_val(config_items[i].value)

====
